---------------------------- MODULE Spec2Model ----------------------------
(***************************************************************************)
(* Model of andypalmi/thesis-rag:                                          *)
(*   deepeval_metrics.py  get_metrics: the suite of five DeepEval metrics  *)
(*   test.py              generate_full_latex_table and its __main__       *)
(*                                                                         *)
(* Numbers.  A threshold is a record [type, tenths]: type is the Python    *)
(* type of the value ("float" or "int") and tenths its value times ten, so *)
(* 0.9 is [type |-> "float", tenths |-> 9] and the int 1 is [type |->      *)
(* "int", tenths |-> 10].  A metric score is an integer number of          *)
(* hundredths, a temperature an integer number of tenths.  A sum of five   *)
(* doubles that each lie on the 0.01 grid differs from the exact sum by    *)
(* far less than 0.005, so the .2f rendering of the sum is the exact sum.  *)
(*                                                                         *)
(* Strings that are ordered, escaped or concatenated are sequences of      *)
(* one-character strings; strings that are only compared for equality are  *)
(* TLA+ strings.  A value that may be missing (NaN) is <<>> when missing   *)
(* and <<v>> when present.                                                 *)
(***************************************************************************)
EXTENDS Integers, Sequences, FiniteSets, TLC

VARIABLES
    \* ---- deepeval_metrics.get_metrics ----
    model,            \* argument model
    thresholds,       \* argument thresholds
    include_reason,   \* argument include_reason
    metrics,          \* the returned list (<<>> before a return)
    outcome,          \* "idle", "returned" or "raised"
    exception,        \* the exception raised, "none" otherwise
    \* ---- test.py ----
    csv_file,         \* what pd.read_csv finds at csv_file_path
    pc,               \* position of __main__
    df,               \* the frame at the end of generate_full_latex_table
    latex_output,     \* the value returned to __main__
    out_file,         \* contents of output_filename
    stdout            \* the message __main__ printed

factoryVars == <<model, thresholds, include_reason, metrics, outcome, exception>>
reportVars  == <<csv_file, pc, df, latex_output, out_file, stdout>>
vars == <<model, thresholds, include_reason, metrics, outcome, exception,
          csv_file, pc, df, latex_output, out_file, stdout>>

-----------------------------------------------------------------------------
(* Bounds of the model *)

\* largest threshold tried, in tenths (11 is 1.1, outside [0,1])
MaxTenths == 11
\* largest number of rows in the CSV
MaxRows == 3

-----------------------------------------------------------------------------
(* deepeval_metrics.py *)

Float(t) == [type |-> "float", tenths |-> t]
PyInt(n) == [type |-> "int", tenths |-> 10 * n]

\* the names DeepEval gives the five metrics
CheckNames == <<"Correctness", "Specific Information Accuracy",
                "Answer Relevancy", "Faithfulness", "Hallucination">>

\* the second argument of each thresholds.get(name, default)
SharedFallback ==
    [n \in {CheckNames[i] : i \in 1..5} |-> Float(9)]

FallbackThreshold ==
    [n \in {CheckNames[i] : i \in 1..5} |->
        IF n = "Hallucination" THEN Float(8) ELSE Float(9)]

\* isinstance(thresholds, float)
IsFloat(th) == th.kind = "scalar" /\ th.value.type = "float"

\* an int has no attribute "get": the conditional expression raises
HasGet(th) == th.kind = "dict"

\* dict.get(key, default)
DictGet(d, key, default) == IF key \in DOMAIN d THEN d[key] ELSE default

\* thresholds if isinstance(thresholds, float) else thresholds.get(name, dflt)
ResolveThreshold(th, name) ==
    IF IsFloat(th) THEN th.value
    ELSE DictGet(th.value, name, FallbackThreshold[name])

\* GEval(name=..., threshold=..., model=model): the constructor stores what
\* it is given; it has no include_reason parameter
GEval(name, th, m) ==
    [name |-> name, kind |-> "GEval", threshold |-> th, model |-> m,
     include_reason |-> <<>>]

\* AnswerRelevancyMetric / FaithfulnessMetric / HallucinationMetric
Classifier(name, th, m, ir) ==
    [name |-> name, kind |-> "classifier", threshold |-> th, model |-> m,
     include_reason |-> <<ir>>]

\* metrics = [correctness_metric, specific_info_accuracy_metric, ...]
MetricsListSwapped(th, m, ir) ==
    << GEval("Correctness", ResolveThreshold(th, "Correctness"), m),
       GEval("Specific Information Accuracy",
             ResolveThreshold(th, "Specific Information Accuracy"), m),
       Classifier("Faithfulness", ResolveThreshold(th, "Faithfulness"), m, ir),
       Classifier("Answer Relevancy",
                  ResolveThreshold(th, "Answer Relevancy"), m, ir),
       Classifier("Hallucination", ResolveThreshold(th, "Hallucination"), m, ir) >>

MetricsList(th, m, ir) ==
    << GEval("Correctness", ResolveThreshold(th, "Correctness"), m),
       GEval("Specific Information Accuracy",
             ResolveThreshold(th, "Specific Information Accuracy"), m),
       Classifier("Answer Relevancy",
                  ResolveThreshold(th, "Answer Relevancy"), m, ir),
       Classifier("Faithfulness", ResolveThreshold(th, "Faithfulness"), m, ir),
       Classifier("Hallucination", ResolveThreshold(th, "Hallucination"), m, ir) >>

\* the values a caller passes as thresholds
ScalarFloats == {Float(t) : t \in -1..MaxTenths}
ScalarInts   == {PyInt(n) : n \in 0..1}
DictKeys     == {CheckNames[i] : i \in 1..5} \cup {"Toxicity"}
DictValues   == {Float(0), Float(5), Float(MaxTenths)}
Dicts        == UNION {[K -> DictValues] : K \in SUBSET DictKeys}
ThresholdArgs ==
    {[kind |-> "scalar", value |-> v] : v \in ScalarFloats \cup ScalarInts}
    \cup {[kind |-> "dict", value |-> d] : d \in Dicts}
ModelArgs == {"None", "gpt-4o"}

\* def get_metrics(model, thresholds, include_reason)
get_metrics(m, th, ir) ==
    /\ outcome = "idle"
    /\ model' = m
    /\ thresholds' = th
    /\ include_reason' = ir
    /\ IF IsFloat(th) \/ HasGet(th)
       THEN /\ metrics' = MetricsList(th, m, ir)
            /\ outcome' = "returned"
            /\ exception' = "none"
       ELSE /\ metrics' = <<>>
            /\ outcome' = "raised"
            /\ exception' = "AttributeError"
    /\ UNCHANGED reportVars

-----------------------------------------------------------------------------
(* Strings as Python orders and formats them *)

\* the printable ASCII characters in code-point order, from chr(32); the
\* grave accent chr(96) is spelled out
Ascii ==
    <<" ", "!", "\"", "#", "$", "%", "&", "'", "(", ")", "*", "+", ",", "-",
      ".", "/", "0", "1", "2", "3", "4", "5", "6", "7", "8", "9", ":", ";",
      "<", "=", ">", "?", "@", "A", "B", "C", "D", "E", "F", "G", "H", "I",
      "J", "K", "L", "M", "N", "O", "P", "Q", "R", "S", "T", "U", "V", "W",
      "X", "Y", "Z", "[", "\\", "]", "^", "_", "grave", "a", "b", "c", "d", "e",
      "f", "g", "h", "i", "j", "k", "l", "m", "n", "o", "p", "q", "r", "s",
      "t", "u", "v", "w", "x", "y", "z", "{", "|", "}", "~">>

\* ord(c)
Ord(c) == 31 + (CHOOSE i \in 1..Len(Ascii) : Ascii[i] = c)

\* a < b on str: by code point, a proper prefix first
StrLess(a, b) ==
    \/ /\ Len(a) < Len(b)
       /\ \A k \in 1..Len(a) : a[k] = b[k]
    \/ \E k \in 1..Len(a) :
          /\ k <= Len(b)
          /\ \A j \in 1..(k - 1) : a[j] = b[j]
          /\ Ord(a[k]) < Ord(b[k])

Digit(d) == Ascii[17 + d]

\* the decimal digits of a natural number
RECURSIVE IntStr(_)
IntStr(n) == IF n < 10 THEN <<Digit(n)>> ELSE IntStr(n \div 10) \o <<Digit(n % 10)>>

\* f"{x:.2f}" of a value given in hundredths
Fmt2(h) == IntStr(h \div 100) \o <<".", Digit((h \div 10) % 10), Digit(h % 10)>>

\* f"{x:.1f}" of a value given in tenths
Fmt1(t) == IntStr(t \div 10) \o <<".", Digit(t % 10)>>

-----------------------------------------------------------------------------
(* test.py: the tables of generate_full_latex_table *)

prompt_mapping ==
    ("current_user_template.txt" :> <<"P", "1">>)
    @@ ("previous_user_template.txt" :> <<"P", "2">>)

model_name_mapping ==
    (<<"G","E","N","A","I","_","S","H","A","R","E","D","_","V","E","R","T","E","X","A","I","_","G","O","O","G","L","E","_","G","E","M","I","N","I","_","1","5","_","F","L","A","S","H">>
       :> <<"G","e","m","i","n","i"," ","1",".","5"," ","F","l","a","s","h">>)
    @@ (<<"G","E","N","A","I","_","S","H","A","R","E","D","_","V","E","R","T","E","X","A","I","_","G","O","O","G","L","E","_","G","E","M","I","N","I","_","1","5","_","P","R","O">>
       :> <<"G","e","m","i","n","i"," ","1",".","5"," ","P","r","o">>)
    @@ (<<"G","E","N","A","I","_","S","H","A","R","E","D","_","V","E","R","T","E","X","A","I","_","G","O","O","G","L","E","_","G","E","M","I","N","I","_","2","_","F","L","A","S","H">>
       :> <<"G","e","m","i","n","i"," ","2",".","0"," ","F","l","a","s","h">>)
    @@ (<<"G","E","N","A","I","_","S","H","A","R","E","D","_","V","E","R","T","E","X","A","I","_","G","O","O","G","L","E","_","G","E","M","I","N","I","_","2","_","F","L","A","S","H","_","L","I","T","E">>
       :> <<"G","e","m","i","n","i"," ","2",".","0"," ","F","l","a","s","h"," ","L","i","t","e">>)
    @@ (<<"G","E","N","A","I","_","S","H","A","R","E","D","_","V","E","R","T","E","X","A","I","_","G","O","O","G","L","E","_","G","E","M","I","N","I","_","2","5","_","P","R","O">>
       :> <<"G","e","m","i","n","i"," ","2",".","5"," ","P","r","o">>)
    @@ (<<"G","E","N","A","I","_","S","H","A","R","E","D","_","V","E","R","T","E","X","A","I","_","G","O","O","G","L","E","_","G","E","M","I","N","I","_","2","5","_","F","L","A","S","H">>
       :> <<"G","e","m","i","n","i"," ","2",".","5"," ","F","l","a","s","h">>)
    @@ (<<"G","E","N","A","I","_","S","H","A","R","E","D","_","V","E","R","T","E","X","A","I","_","A","N","T","H","R","O","P","I","C","_","C","L","A","U","D","E","_","3","5","_","S","O","N","N","E","T">>
       :> <<"C","l","a","u","d","e"," ","3",".","5"," ","S","o","n","n","e","t">>)
    @@ (<<"G","E","N","A","I","_","S","H","A","R","E","D","_","V","E","R","T","E","X","A","I","_","A","N","T","H","R","O","P","I","C","_","C","L","A","U","D","E","_","3","5","_","S","O","N","N","E","T","_","V","2">>
       :> <<"C","l","a","u","d","e"," ","3",".","5"," ","S","o","n","n","e","t"," ","v","2">>)
    @@ (<<"G","E","N","A","I","_","S","H","A","R","E","D","_","V","E","R","T","E","X","A","I","_","A","N","T","H","R","O","P","I","C","_","C","L","A","U","D","E","_","3","7","_","S","O","N","N","E","T">>
       :> <<"C","l","a","u","d","e"," ","3",".","7"," ","S","o","n","n","e","t">>)
    @@ (<<"G","E","N","A","I","_","S","H","A","R","E","D","_","V","E","R","T","E","X","A","I","_","A","N","T","H","R","O","P","I","C","_","C","L","A","U","D","E","_","4","_","S","O","N","N","E","T">>
       :> <<"C","l","a","u","d","e"," ","4",".","0"," ","S","o","n","n","e","t">>)
    @@ (<<"G","E","N","A","I","_","S","H","A","R","E","D","_","B","E","D","R","O","C","K","_","A","N","T","H","R","O","P","I","C","_","C","L","A","U","D","E","_","3","_","H","A","I","K","U">>
       :> <<"C","l","a","u","d","e"," ","3"," ","H","a","i","k","u">>)
    @@ (<<"G","E","N","A","I","_","S","H","A","R","E","D","_","A","Z","U","R","E","_","O","P","E","N","A","I","_","G","P","T","_","4","_","O","M","N","I">>
       :> <<"G","P","T","-","4"," ","O","m","n","i">>)
    @@ (<<"G","E","N","A","I","_","S","H","A","R","E","D","_","A","Z","U","R","E","_","O","P","E","N","A","I","_","G","P","T","_","4","_","O","M","N","I","_","2","0","2","4","_","2","0","_","1","1">>
       :> <<"G","P","T","-","4"," ","O","m","n","i"," ","(","2","0","2","4","-","1","1","-","2","0",")">>)
    @@ (<<"G","E","N","A","I","_","S","H","A","R","E","D","_","A","Z","U","R","E","_","O","P","E","N","A","I","_","G","P","T","_","4","_","O","M","N","I","_","M","I","N","I">>
       :> <<"G","P","T","-","4"," ","O","m","n","i"," ","M","i","n","i">>)
    @@ (<<"G","E","N","A","I","_","S","H","A","R","E","D","_","A","Z","U","R","E","_","O","P","E","N","A","I","_","G","P","T","_","4","1","_","N","A","N","O">>
       :> <<"G","P","T","-","4",".","1"," ","N","a","n","o">>)
    @@ (<<"G","E","N","A","I","_","S","H","A","R","E","D","_","A","Z","U","R","E","_","O","P","E","N","A","I","_","G","P","T","_","4","1">>
       :> <<"G","P","T","-","4",".","1">>)
    @@ (<<"G","E","N","A","I","_","S","H","A","R","E","D","_","A","Z","U","R","E","_","O","P","E","N","A","I","_","O","1","_","M","I","N","I">>
       :> <<"O","1"," ","M","i","n","i">>)
    @@ (<<"G","E","N","A","I","_","S","H","A","R","E","D","_","A","Z","U","R","E","_","O","P","E","N","A","I","_","O","1">>
       :> <<"O","1">>)
    @@ (<<"G","E","N","A","I","_","S","H","A","R","E","D","_","A","Z","U","R","E","_","O","P","E","N","A","I","_","O","3">>
       :> <<"O","3">>)
    @@ (<<"G","E","N","A","I","_","S","H","A","R","E","D","_","A","Z","U","R","E","_","O","P","E","N","A","I","_","O","3","_","M","I","N","I">>
       :> <<"O","3"," ","M","i","n","i">>)
    @@ (<<"G","E","N","A","I","_","S","H","A","R","E","D","_","A","Z","U","R","E","_","O","P","E","N","A","I","_","O","4","_","M","I","N","I">>
       :> <<"O","4"," ","M","i","n","i">>)
    @@ (<<"G","E","N","A","I","_","S","H","A","R","E","D","_","A","Z","U","R","E","_","O","P","E","N","A","I","_","T","E","X","T","_","A","D","A","_","0","0","2">>
       :> <<"A","d","a","-","0","0","2">>)
    @@ (<<"G","E","N","A","I","_","S","H","A","R","E","D","_","A","Z","U","R","E","_","O","P","E","N","A","I","_","T","E","X","T","_","E","M","B","E","D","D","I","N","G","_","0","0","3","_","L","A","R","G","E">>
       :> <<"E","m","b","e","d","d","i","n","g","-","0","0","3"," ","L","a","r","g","e">>)
    @@ (<<"G","E","N","A","I","_","S","H","A","R","E","D","_","B","E","D","R","O","C","K","_","A","M","A","Z","O","N","_","T","I","T","A","N","_","E","M","B","E","D","_","T","E","X","T","_","V","1">>
       :> <<"T","i","t","a","n"," ","E","m","b","e","d"," ","v","1">>)
    @@ (<<"G","E","N","A","I","_","S","H","A","R","E","D","_","V","E","R","T","E","X","A","I","_","G","O","O","G","L","E","_","T","E","X","T","E","M","B","E","D","D","I","N","G","_","G","E","C","K","O">>
       :> <<"G","e","c","k","o">>)

\* metric_order: name -> abbreviation, in insertion order
metric_names ==
    <<"Answer Relevancy", "Correctness", "Faithfulness", "Hallucination",
      "Specific Information Accuracy">>

avg_cols    == [i \in 1..5 |-> metric_names[i] \o " (Avg)"]
gpt4o_cols  == [i \in 1..5 |-> metric_names[i] \o " (GPT-4o)"]
claude_cols == [i \in 1..5 |-> metric_names[i] \o " (Sonnet3.5)"]

-----------------------------------------------------------------------------
(* test.py: the steps of generate_full_latex_table *)

\* df.rename(columns={'Configuration': 'Model'}); every row keeps its index
Rename(rows) ==
    [i \in 1..Len(rows) |->
        [idx |-> i, Model |-> rows[i].Configuration, Prompt |-> rows[i].Prompt,
         Temperature |-> rows[i].Temperature, cols |-> rows[i].cols]]

\* df = df[df['Prompt'].isin(prompt_mapping)]
FilterCurrentOnly(rows) ==
    SelectSeq(rows, LAMBDA r : r.Prompt = "current_user_template.txt")

FilterPrompts(rows) ==
    SelectSeq(rows, LAMBDA r : r.Prompt \in DOMAIN prompt_mapping)

\* df['Prompt'] = df['Prompt'].map(prompt_mapping)
MapPrompts(rows) ==
    [i \in 1..Len(rows) |->
        [rows[i] EXCEPT !.Prompt = prompt_mapping[rows[i].Prompt]]]

\* df['Model'].map(model_name_mapping).fillna(df['Model']) for one row
RawModel(r) == r.Model

MappedModel(r) ==
    LET mapped == IF r.Model \in DOMAIN model_name_mapping
                  THEN <<model_name_mapping[r.Model]>> ELSE <<>>
    IN  IF mapped = <<>> THEN r.Model ELSE mapped[1]

\* df['MappedModel'] = ...
AddMappedModel(rows) ==
    [i \in 1..Len(rows) |->
        [idx |-> rows[i].idx, Model |-> rows[i].Model,
         Prompt |-> rows[i].Prompt, Temperature |-> rows[i].Temperature,
         cols |-> rows[i].cols, MappedModel |-> MappedModel(rows[i])]]

\* the order of one numeric key with na_position='last'
TempLess(x, y) == x # <<>> /\ (y = <<>> \/ x[1] < y[1])

\* the order of one numeric key with the missing values first
TempLessNaFirst(x, y) == y # <<>> /\ (x = <<>> \/ x[1] < y[1])

\* the order of ['MappedModel', 'Prompt', 'Temperature']
KeyLess(a, b) ==
    \/ StrLess(a.MappedModel, b.MappedModel)
    \/ /\ a.MappedModel = b.MappedModel
       /\ \/ StrLess(a.Prompt, b.Prompt)
          \/ /\ a.Prompt = b.Prompt
             /\ TempLess(a.Temperature, b.Temperature)

KeyLessNaFirst(a, b) ==
    \/ StrLess(a.MappedModel, b.MappedModel)
    \/ /\ a.MappedModel = b.MappedModel
       /\ \/ StrLess(a.Prompt, b.Prompt)
          \/ /\ a.Prompt = b.Prompt
             /\ TempLessNaFirst(a.Temperature, b.Temperature)

\* df.sort_values([...], inplace=True): a sort on several keys is a stable
\* lexicographic sort; here by insertion behind every row not greater
SortValuesNaFirst(rows) ==
    LET S[n \in 0..Len(rows)] ==
            IF n = 0 THEN <<>>
            ELSE SelectSeq(S[n - 1], LAMBDA e : ~KeyLessNaFirst(rows[n], e))
                 \o <<rows[n]>>
                 \o SelectSeq(S[n - 1], LAMBDA e : KeyLessNaFirst(rows[n], e))
    IN  S[Len(rows)]

SortValues(rows) ==
    LET S[n \in 0..Len(rows)] ==
            IF n = 0 THEN <<>>
            ELSE SelectSeq(S[n - 1], LAMBDA e : ~KeyLess(rows[n], e))
                 \o <<rows[n]>>
                 \o SelectSeq(S[n - 1], LAMBDA e : KeyLess(rows[n], e))
    IN  S[Len(rows)]

\* df[avg_cols].sum(axis=1) for one row
RowSumWithGpt4o(r) ==
    r.cols[avg_cols[1]] + r.cols[avg_cols[2]] + r.cols[avg_cols[3]]
    + r.cols[avg_cols[4]] + r.cols[gpt4o_cols[5]]

RowSum(r) ==
    r.cols[avg_cols[1]] + r.cols[avg_cols[2]] + r.cols[avg_cols[3]]
    + r.cols[avg_cols[4]] + r.cols[avg_cols[5]]

\* df['Sum'] = ...
AddSum(rows) ==
    [i \in 1..Len(rows) |->
        [idx |-> rows[i].idx, Model |-> rows[i].Model,
         Prompt |-> rows[i].Prompt, Temperature |-> rows[i].Temperature,
         cols |-> rows[i].cols, MappedModel |-> rows[i].MappedModel,
         Sum |-> RowSum(rows[i])]]

\* str.replace('_', r'\_')
EscapeNothing(s) == s

RECURSIVE Escape(_)
Escape(s) ==
    IF s = <<>> THEN <<>>
    ELSE (IF Head(s) = "_" THEN <<"\\", "_">> ELSE <<Head(s)>>)
         \o Escape(Tail(s))

\* one pass of the loop "for _, r in df.iterrows()": the cells of the line
\* m & p & t & avg_vals & total & g4o_vals & claude_vals
RenderRow(r) ==
    << Escape(r.MappedModel),
       r.Prompt,
       IF r.Temperature # <<>> THEN Fmt1(r.Temperature[1]) ELSE <<"-">> >>
    \o [i \in 1..5 |-> Fmt2(r.cols[avg_cols[i]])]
    \o << Fmt2(r.Sum) >>
    \o [i \in 1..5 |-> Fmt2(r.cols[gpt4o_cols[i]])]
    \o [i \in 1..5 |-> Fmt2(r.cols[claude_cols[i]])]

\* the frame after steps 0 to 2
BuildFrame(rows) ==
    AddSum(SortValues(AddMappedModel(MapPrompts(FilterPrompts(Rename(rows))))))

NoText == [tag |-> "none", lines |-> <<>>]

\* def generate_full_latex_table(csv_path), called by __main__
generate_full_latex_table ==
    /\ pc = "start"
    /\ pc' = "generated"
    /\ IF csv_file.state = "FileNotFoundError"
       THEN /\ latex_output' = [tag |-> "Error: The file was not found.",
                                lines |-> <<>>]
            /\ df' = <<>>
       ELSE IF csv_file.state # "readable"
       THEN /\ latex_output' =
                 [tag |-> "An error occurred while reading the CSV file",
                  lines |-> <<>>]
            /\ df' = <<>>
       ELSE /\ df' = BuildFrame(csv_file.rows)
            /\ latex_output' =
                 [tag |-> "longtable",
                  lines |-> [i \in 1..Len(df') |-> RenderRow(df'[i])]]
    /\ UNCHANGED <<csv_file, out_file, stdout>>
    /\ UNCHANGED factoryVars

\* __main__: open(output_filename, 'w') and f.write(latex_output) succeed
WriteOutput ==
    /\ pc = "generated"
    /\ pc' = "done"
    /\ out_file' = latex_output
    /\ stdout' = "LaTeX table successfully saved"
    /\ UNCHANGED <<csv_file, df, latex_output>>
    /\ UNCHANGED factoryVars

\* __main__: open raises IOError, which is caught and reported
WriteFails ==
    /\ pc = "generated"
    /\ pc' = "done"
    /\ stdout' = "An error occurred while writing to the file"
    /\ UNCHANGED <<csv_file, df, latex_output, out_file>>
    /\ UNCHANGED factoryVars

-----------------------------------------------------------------------------
(* The CSV files tried *)

\* 'GENAI_SHARED_AZURE_OPENAI_O1', which the table maps to 'O1'
MappedId ==
    <<"G","E","N","A","I","_","S","H","A","R","E","D","_","A","Z","U","R","E",
      "_","O","P","E","N","A","I","_","O","1">>

\* 'H_\_1', which the table does not map
UnmappedId == <<"H", "_", "\\", "_", "1">>

Columns ==
    {avg_cols[i] : i \in 1..5} \cup {gpt4o_cols[i] : i \in 1..5}
    \cup {claude_cols[i] : i \in 1..5}

\* the fifteen metric columns from three five-tuples of hundredths
Cols(avg, g4o, claude) ==
    [c \in Columns |->
        IF \E i \in 1..5 : c = avg_cols[i]
        THEN avg[CHOOSE i \in 1..5 : c = avg_cols[i]]
        ELSE IF \E i \in 1..5 : c = gpt4o_cols[i]
        THEN g4o[CHOOSE i \in 1..5 : c = gpt4o_cols[i]]
        ELSE claude[CHOOSE i \in 1..5 : c = claude_cols[i]]]

CsvRow(cfg, prompt, temp, cols) ==
    [Configuration |-> cfg, Prompt |-> prompt, Temperature |-> temp,
     cols |-> cols]

FixedCols == Cols(<<80, 70, 60, 90, 50>>, <<75, 65, 55, 85, 45>>,
                  <<85, 75, 65, 95, 55>>)

\* rows that differ in the sort keys and in the Prompt filter
KeyRows ==
    {CsvRow(c, p, t, FixedCols) :
        c \in {MappedId, UnmappedId},
        p \in {"current_user_template.txt", "previous_user_template.txt"},
        t \in {<<>>, <<0>>, <<7>>}}
    \cup {CsvRow(UnmappedId, "system_template.txt", <<0>>, FixedCols)}

\* rows that differ in the metric columns
ScoreRows ==
    {CsvRow(MappedId, "current_user_template.txt", <<7>>, Cols(a, g, c)) :
        a \in {<<80, 70, 60, 90, 50>>, <<0, 0, 0, 0, 5>>,
               <<100, 100, 100, 100, 100>>},
        g \in {<<0, 0, 0, 0, 0>>, <<75, 65, 55, 85, 45>>},
        c \in {<<100, 100, 100, 100, 100>>, <<85, 75, 65, 95, 55>>}}

Tables(RowSet) == UNION {[1..n -> RowSet] : n \in 0..MaxRows}

CsvFiles(RowSet) ==
    {[state |-> "readable", rows |-> t] : t \in Tables(RowSet)}
    \cup {[state |-> s, rows |-> <<>>] : s \in {"FileNotFoundError", "ParserError"}}

-----------------------------------------------------------------------------
(* Specifications *)

FactoryIdle ==
    /\ model = "None"
    /\ thresholds = [kind |-> "scalar", value |-> Float(7)]
    /\ include_reason = FALSE
    /\ metrics = <<>>
    /\ outcome = "idle"
    /\ exception = "none"

ReportIdle ==
    /\ pc = "start"
    /\ df = <<>>
    /\ latex_output = NoText
    /\ out_file = NoText
    /\ stdout = ""

InitFactory ==
    /\ FactoryIdle
    /\ ReportIdle
    /\ csv_file = [state |-> "FileNotFoundError", rows |-> <<>>]

InitReport ==
    /\ FactoryIdle
    /\ ReportIdle
    /\ csv_file \in CsvFiles(KeyRows)

InitTotal ==
    /\ FactoryIdle
    /\ ReportIdle
    /\ csv_file \in CsvFiles(ScoreRows)

\* the caller calls get_metrics once, with any arguments
NextFactory ==
    /\ outcome = "idle"
    /\ \E m \in ModelArgs, th \in ThresholdArgs, ir \in BOOLEAN :
          get_metrics(m, th, ir)

NextReport ==
    \/ generate_full_latex_table
    \/ WriteOutput
    \/ WriteFails

\* one call of get_metrics
SpecFactory == InitFactory /\ [][NextFactory]_vars

\* one run of test.py over CSV files that differ in the sort keys
SpecReport == InitReport /\ [][NextReport]_vars

\* one run of test.py over CSV files that differ in the metric columns
SpecTotal == InitTotal /\ [][NextReport]_vars

-----------------------------------------------------------------------------
(* Vocabulary of the properties *)

CheckNameSet == {"Correctness", "Specific Information Accuracy",
                 "Answer Relevancy", "Faithfulness", "Hallucination"}

\* a threshold lies in [0,1]
InUnitInterval(v) == v.tenths >= 0 /\ v.tenths <= 10

\* the threshold the returned suite gives the check called n
SuiteThreshold(n) ==
    metrics[CHOOSE i \in 1..Len(metrics) : metrics[i].name = n].threshold

\* the value the policy resolves to for the check called n
PolicyValue(n) ==
    IF thresholds.kind = "scalar" THEN thresholds.value
    ELSE IF n \in DOMAIN thresholds.value THEN thresholds.value[n]
    ELSE IF n = "Hallucination" THEN Float(8) ELSE Float(9)

Called == outcome # "idle"

\* generate ran on a readable row source
Generated == pc # "start" /\ csv_file.state = "readable"

SrcRows == csv_file.rows
Lines == latex_output.lines

Recognized(k) ==
    SrcRows[k].Prompt \in {"current_user_template.txt",
                           "previous_user_template.txt"}

RecognizedRows == {k \in 1..Len(SrcRows) : Recognized(k)}

\* the display prompt code of source row k
SrcCode(k) ==
    IF SrcRows[k].Prompt = "current_user_template.txt"
    THEN <<"P", "1">> ELSE <<"P", "2">>

InLookup(k) == SrcRows[k].Configuration \in DOMAIN model_name_mapping

\* the display label of source row k
SrcLabel(k) ==
    IF InLookup(k) THEN model_name_mapping[SrcRows[k].Configuration]
    ELSE SrcRows[k].Configuration

\* the source row that data line i was made from
SrcOf(i) == df[i].idx

\* every data line is made from a source row, cell by cell for the keys
LinesFollowFrame ==
    /\ Len(Lines) = Len(df)
    /\ \A i \in 1..Len(df) :
          /\ SrcOf(i) \in 1..Len(SrcRows)
          /\ Lines[i][2] = df[i].Prompt

\* s with every '\_' replaced by '_', left to right
RECURSIVE Unescape(_)
Unescape(s) ==
    IF s = <<>> THEN <<>>
    ELSE IF Len(s) >= 2 /\ s[1] = "\\" /\ s[2] = "_"
    THEN <<"_">> \o Unescape(SubSeq(s, 3, Len(s)))
    ELSE <<Head(s)>> \o Unescape(Tail(s))

Underscores(s) == {k \in 1..Len(s) : s[k] = "_"}

\* row a comes strictly before row b in (label, prompt code, temperature),
\* an absent temperature after every present one
KeyBefore(a, b) ==
    \/ StrLess(SrcLabel(a), SrcLabel(b))
    \/ /\ SrcLabel(a) = SrcLabel(b)
       /\ \/ StrLess(SrcCode(a), SrcCode(b))
          \/ /\ SrcCode(a) = SrcCode(b)
             /\ SrcRows[a].Temperature # <<>>
             /\ \/ SrcRows[b].Temperature = <<>>
                \/ SrcRows[a].Temperature[1] < SrcRows[b].Temperature[1]

-----------------------------------------------------------------------------
(* Properties of get_metrics, checked under SpecFactory *)

\* C1: for a threshold policy that is a single numeric scalar s in [0,1],
\* get_metrics returns a suite in which each of the five checks has
\* threshold exactly s.
C1_ScalarThresholdEverywhere ==
    (Called /\ thresholds.kind = "scalar" /\ InUnitInterval(thresholds.value))
    => /\ outcome = "returned"
       /\ Len(metrics) = 5
       /\ \A i \in 1..5 : metrics[i].threshold = thresholds.value

\* C2: for a mapping-form policy, each check's threshold is the mapping's
\* entry under that check's name when present and otherwise the check's own
\* fallback (0.8 for Hallucination, 0.9 for the other four); the call does
\* not raise.
C2_MappingThreshold ==
    (Called /\ thresholds.kind = "dict")
    => /\ outcome = "returned"
       /\ exception = "none"
       /\ \A n \in CheckNameSet :
             /\ \E i \in 1..Len(metrics) : metrics[i].name = n
             /\ SuiteThreshold(n) =
                   IF n \in DOMAIN thresholds.value THEN thresholds.value[n]
                   ELSE IF n = "Hallucination" THEN Float(8) ELSE Float(9)

\* a mapping with an entry for Correctness and for an unknown name, and
\* none for Hallucination or Faithfulness
C2_Witness ==
    /\ outcome = "returned"
    /\ thresholds.kind = "dict"
    /\ DOMAIN thresholds.value = {"Correctness", "Toxicity"}
    /\ thresholds.value["Correctness"] = Float(5)
    /\ SuiteThreshold("Correctness") = Float(5)
    /\ SuiteThreshold("Hallucination") = Float(8)
    /\ SuiteThreshold("Faithfulness") = Float(9)

\* C3: if the policy resolves to a value outside [0,1] for any check, the
\* call fails with InvalidThreshold and returns no suite; every returned
\* suite has all five thresholds in [0,1].
C3_InvalidThresholdAborts ==
    /\ (Called /\ \E n \in CheckNameSet : ~InUnitInterval(PolicyValue(n)))
       => /\ outcome = "raised"
          /\ exception = "InvalidThreshold"
          /\ metrics = <<>>
    /\ outcome = "returned"
       => \A i \in 1..Len(metrics) : InUnitInterval(metrics[i].threshold)

\* C10: whenever get_metrics returns, the suite is the five checks in the
\* order Correctness, Specific Information Accuracy, Answer Relevancy,
\* Faithfulness, Hallucination, whatever the policy.
C10_FiveChecksInOrder ==
    outcome = "returned"
    => [i \in 1..Len(metrics) |-> metrics[i].name]
       = <<"Correctness", "Specific Information Accuracy",
           "Answer Relevancy", "Faithfulness", "Hallucination">>

\* a returned suite built from a mapping that names every check
C10_Witness ==
    /\ outcome = "returned"
    /\ thresholds.kind = "dict"
    /\ CheckNameSet \subseteq DOMAIN thresholds.value
    /\ include_reason
    /\ Len(metrics) = 5

-----------------------------------------------------------------------------
(* Properties of test.py, checked under SpecReport *)

\* C4: when the row source cannot be read, generate returns no document,
\* partial or otherwise, so nothing is written to the document sink.
C4_SourceUnavailable ==
    csv_file.state # "readable"
    => /\ latex_output = NoText
       /\ out_file = NoText

\* C5: the data lines correspond one-to-one with the source rows whose
\* Prompt is recognized; each carries the mapped short code; rows with an
\* unrecognized Prompt produce no line and no other row is dropped or
\* duplicated.
C5_LinesAreRecognizedRows ==
    Generated
    => /\ LinesFollowFrame
       /\ latex_output.tag = "longtable"
       /\ {SrcOf(i) : i \in 1..Len(df)} = RecognizedRows
       /\ Len(Lines) = Cardinality(RecognizedRows)
       /\ \A i \in 1..Len(df) : Lines[i][2] = SrcCode(SrcOf(i))

\* three source rows, one unrecognized, one with an unmapped model id and
\* no temperature; two data lines were written
C5_Witness ==
    /\ pc = "done"
    /\ csv_file.state = "readable"
    /\ Len(SrcRows) = 3
    /\ Cardinality(RecognizedRows) = 2
    /\ \E k \in RecognizedRows :
          ~InLookup(k) /\ SrcRows[k].Temperature = <<>>
    /\ \E k \in RecognizedRows : SrcRows[k].Prompt = "previous_user_template.txt"
    /\ Len(out_file.lines) = 2

\* C6: the data lines are in ascending order of (display label, prompt
\* code, temperature), an absent temperature after the present ones of its
\* group, and lines with equal keys keep their input order.
C6_LinesSorted ==
    Generated
    => /\ LinesFollowFrame
       /\ \A i \in 1..Len(df) :
             /\ Unescape(Lines[i][1]) = SrcLabel(SrcOf(i))
             /\ Lines[i][2] = SrcCode(SrcOf(i))
       /\ \A i, j \in 1..Len(df) :
             i < j => /\ ~KeyBefore(SrcOf(j), SrcOf(i))
                      /\ ~KeyBefore(SrcOf(i), SrcOf(j)) => SrcOf(i) < SrcOf(j)

\* a row without temperature stood first in the input and was placed after
\* two rows of its group that have one; those two have equal keys and kept
\* their input order
C6_Witness ==
    /\ pc = "done"
    /\ Len(out_file.lines) = 3
    /\ \E i, j \in 1..Len(df) :
          /\ i < j
          /\ SrcOf(i) > SrcOf(j)
          /\ SrcLabel(SrcOf(i)) = SrcLabel(SrcOf(j))
          /\ SrcCode(SrcOf(i)) = SrcCode(SrcOf(j))
          /\ SrcRows[SrcOf(j)].Temperature = <<>>
          /\ SrcRows[SrcOf(i)].Temperature # <<>>
    /\ \E i, j \in 1..Len(df) :
          /\ i < j
          /\ SrcOf(i) < SrcOf(j)
          /\ ~KeyBefore(SrcOf(i), SrcOf(j))
          /\ ~KeyBefore(SrcOf(j), SrcOf(i))

\* C7: a row whose model id is not in the lookup table has that raw id,
\* unmodified, as its display label; a row whose id is in the table has
\* the curated name; generation does not fail and drops neither.
C7_LabelFallback ==
    Generated
    => /\ LinesFollowFrame
       /\ latex_output.tag = "longtable"
       /\ \A k \in RecognizedRows : \E i \in 1..Len(df) : SrcOf(i) = k
       /\ \A i \in 1..Len(df) :
             LET raw == SrcRows[SrcOf(i)].Configuration
             IN  /\ raw \notin DOMAIN model_name_mapping
                    => /\ df[i].MappedModel = raw
                       /\ Unescape(Lines[i][1]) = raw
                 /\ raw \in DOMAIN model_name_mapping
                    => /\ df[i].MappedModel = model_name_mapping[raw]
                       /\ Lines[i][1] = model_name_mapping[raw]

\* a line for the unmapped id 'H_\_1' and a line for 'O1'
C7_Witness ==
    /\ pc = "done"
    /\ \E i \in 1..Len(df) :
          /\ SrcRows[SrcOf(i)].Configuration = UnmappedId
          /\ df[i].MappedModel = UnmappedId
    /\ \E i \in 1..Len(df) :
          /\ SrcRows[SrcOf(i)].Configuration = MappedId
          /\ out_file.lines[i][1] = <<"O", "1">>

\* C8: in every data line each underscore of the display label is rendered
\* as backslash-underscore and every other character is unchanged and in
\* place: replacing each '\_' of the cell by '_' gives the label back.
C8_UnderscoresEscaped ==
    Generated
    => /\ LinesFollowFrame
       /\ \A i \in 1..Len(df) :
             LET label == SrcLabel(SrcOf(i))
                 cell  == Lines[i][1]
             IN  /\ Unescape(cell) = label
                 /\ Len(cell) = Len(label) + Cardinality(Underscores(label))
                 /\ \A k \in Underscores(cell) : k > 1 /\ cell[k - 1] = "\\"

\* the label 'H_\_1', with two underscores and a backslash of its own, was
\* written as 'H\_\\_1'
C8_Witness ==
    /\ pc = "done"
    /\ \E i \in 1..Len(df) :
          /\ SrcLabel(SrcOf(i)) = <<"H", "_", "\\", "_", "1">>
          /\ out_file.lines[i][1] = <<"H", "\\", "_", "\\", "\\", "_", "1">>

-----------------------------------------------------------------------------
(* Property of test.py, checked under SpecTotal *)

\* the value of one metric column of the source row of line i
SrcScore(i, column) == SrcRows[SrcOf(i)].cols[column]

\* C9: the Total cell of every line is the sum of the row's five '(Avg)'
\* columns and of nothing else, and stands after the five averages and
\* before the GPT-4o and Sonnet3.5 clusters.
C9_TotalIsSumOfAverages ==
    Generated
    => /\ LinesFollowFrame
       /\ \A i \in 1..Len(df) :
             /\ Len(Lines[i]) = 19
             /\ Lines[i][4] = Fmt2(SrcScore(i, "Answer Relevancy (Avg)"))
             /\ Lines[i][5] = Fmt2(SrcScore(i, "Correctness (Avg)"))
             /\ Lines[i][6] = Fmt2(SrcScore(i, "Faithfulness (Avg)"))
             /\ Lines[i][7] = Fmt2(SrcScore(i, "Hallucination (Avg)"))
             /\ Lines[i][8] =
                   Fmt2(SrcScore(i, "Specific Information Accuracy (Avg)"))
             /\ Lines[i][9] =
                   Fmt2(SrcScore(i, "Answer Relevancy (Avg)")
                        + SrcScore(i, "Correctness (Avg)")
                        + SrcScore(i, "Faithfulness (Avg)")
                        + SrcScore(i, "Hallucination (Avg)")
                        + SrcScore(i, "Specific Information Accuracy (Avg)"))
             /\ Lines[i][10] = Fmt2(SrcScore(i, "Answer Relevancy (GPT-4o)"))
             /\ Lines[i][14] =
                   Fmt2(SrcScore(i, "Specific Information Accuracy (GPT-4o)"))
             /\ Lines[i][15] = Fmt2(SrcScore(i, "Answer Relevancy (Sonnet3.5)"))
             /\ Lines[i][19] =
                   Fmt2(SrcScore(i, "Specific Information Accuracy (Sonnet3.5)"))

\* averages 0.80, 0.70, 0.60, 0.90, 0.50 with non-zero GPT-4o and
\* Sonnet3.5 columns were written with the total 3.50
C9_Witness ==
    /\ pc = "done"
    /\ \E i \in 1..Len(df) :
          /\ SrcScore(i, "Answer Relevancy (Avg)") = 80
          /\ SrcScore(i, "Specific Information Accuracy (Avg)") = 50
          /\ SrcScore(i, "Specific Information Accuracy (GPT-4o)") = 45
          /\ SrcScore(i, "Answer Relevancy (Sonnet3.5)") = 100
          /\ SubSeq(out_file.lines[i], 4, 9) =
                << <<"0", ".", "8", "0">>, <<"0", ".", "7", "0">>,
                   <<"0", ".", "6", "0">>, <<"0", ".", "9", "0">>,
                   <<"0", ".", "5", "0">>, <<"3", ".", "5", "0">> >>

=============================================================================
